---- MODULE Spec2Model ----
(***************************************************************************)
(* Collection pipeline of the telegram data-collection bot: the scheduler  *)
(* (startCollection / stopCollection and their two timers), the cycle      *)
(* runner (runCollectionCycle over scrapePublicData and                    *)
(* processPlatformData), the merge step (deduplicate, then cap) and the    *)
(* load/save of the on-disk snapshot.                                      *)
(*                                                                         *)
(* Node runs every callback to its next await without interleaving, so one *)
(* action is one such run: a command handler, a timer callback, or the     *)
(* continuation of a cycle after a delay or a fetch has resolved.  Time is *)
(* not measured: an armed timer may fire at any moment.                    *)
(***************************************************************************)
EXTENDS Integers, Sequences, FiniteSets, TLC

(***************************************************************************)
(* Bounds.  One run of the process is bounded by a record with the fields  *)
(*   chats, sessions, inflight, platforms, phrases, universe, items, file  *)
(* fixed at its start: the chats that send commands, the accepted starts,  *)
(* the cycles in progress at the same time, the leading platforms of       *)
(* config.PLATFORMS and base phrases of config.SEARCH_PHRASES the          *)
(* configuration has, the content items the platforms hold, the content    *)
(* items the requests of one cycle return in total, and the entries of the *)
(* data file found at start.                                               *)
(***************************************************************************)
MaxEntries == 3        \* config.STORAGE.maxEntries, scaled down

\* Spec: the scheduler with two chats, over a one-request cycle
SchedChats == 2
SchedSessions == 2
SchedInFlight == 2
SchedPlatforms == 1
SchedPhrases == 1
SchedUniverse == 1
SchedItems == 1
SchedFile == 1

\* SpecCycle: one chat, cycles over several platforms and more terms than the cap
CycleChats == 1
CycleSessions == 1
CycleInFlight == 1
CyclePlatforms == 2
CyclePhrases == 6
CycleUniverse == 1
CycleItems == 1
CycleFile == 0

\* SpecData: one chat, one-request cycles over several content items, data files up to the size limit
DataChats == 1
DataSessions == 1
DataInFlight == 1
DataPlatforms == 1
DataPhrases == 1
DataUniverse == 3
DataItems == 2
DataFile == 3

\* SpecReconcile: the collections the reconcile pass is applied to
ReconcilePlatforms == 1
ReconcileUniverse == 4
MaxCollection == 5
MaxPasses == 2

\* SpecFilter: one chat that sets filters and starts, over a one-request cycle
FilterChats == 1
FilterSessions == 1
FilterInFlight == 1
FilterPlatforms == 1
FilterPhrases == 1
FilterUniverse == 1
FilterItems == 1
FilterFile == 0

\* SpecClassify: the words of a text to classify
MaxWords == 3

\* SpecValidate: the kinds of separator a candidate is written with
MaxSeparators == 3

null == "null"

VARIABLES
    input,              \* the argument a function is applied to on its own; null in a run of the process
    run,                \* the bounds and configuration of this run
    pc,                 \* "boot" until initializeBot has loaded the data file
    enabled,            \* config.PLATFORMS[p].enabled, fixed at process start
    dataFile,           \* the snapshot on disk
    collectedData,      \* index.js: let collectedData
    collectionInterval, \* index.js: let collectionInterval (0 is null)
    session,            \* ctx.session of each chat
    intervals,          \* the armed recurring timers, named by the start that armed them
    timeouts,           \* the armed one-shot auto-stop timers, named likewise
    starts,             \* per accepted start: the ctx and arguments its closures hold, the session
                        \* it found, and how its session ended
    cycles,             \* the runCollectionCycle calls in progress, oldest first
    lastOp              \* the callback that ran last, with what it replied

vars == <<input, run, pc, enabled, dataFile, collectedData, collectionInterval, session,
          intervals, timeouts, starts, cycles, lastOp>>

Chats == 1..run.chats

(***************************************************************************)
(* Configuration (config.js).  The two accented search terms are written   *)
(* in ASCII; only searchTerms[0] of a country is ever read.                *)
(***************************************************************************)
COUNTRIES ==
    [ USA       |-> [code |-> "+1",  name |-> "United States",  searchTerms |-> <<"usa", "united states", "us", "america">>],
      UK        |-> [code |-> "+44", name |-> "United Kingdom", searchTerms |-> <<"uk", "united kingdom", "britain", "england">>],
      AUSTRALIA |-> [code |-> "+61", name |-> "Australia",      searchTerms |-> <<"australia", "aus", "au", "sydney", "melbourne">>],
      SPAIN     |-> [code |-> "+34", name |-> "Spain",          searchTerms |-> <<"spain", "espan~a", "spanish", "madrid", "barcelona">>],
      MEXICO    |-> [code |-> "+52", name |-> "Mexico",         searchTerms |-> <<"mexico", "me'xico", "mexican", "cdmx", "guadalajara">>] ]

CountryKeys == <<"USA", "UK", "AUSTRALIA", "SPAIN", "MEXICO">>

CATEGORIES ==
    [ CRYPTO  |-> <<"crypto", "bitcoin", "ethereum", "binance", "coinbase",
                    "blockchain", "defi", "nft", "airdrop", "token">>,
      TRADING |-> <<"trading", "forex", "signals", "stocks", "invest",
                    "investment", "trading signals", "forex signals">>,
      EARNING |-> <<"earn", "earning", "money making", "passive income",
                    "online income", "make money", "side hustle">>,
      GROUPS  |-> <<"group", "community", "channel", "telegram group",
                    "whatsapp group", "join group">> ]

CategoryKeys == <<"CRYPTO", "TRADING", "EARNING", "GROUPS">>

SEARCH_PHRASES ==
    << "whatsapp me for crypto signals",
       "dm me on whatsapp for trading",
       "contact me on whatsapp for investment",
       "crypto group join whatsapp",
       "earn money whatsapp number",
       "binance signal group whatsapp",
       "whatsapp for trading tips",
       "join whatsapp for airdrop",
       "whatsapp crypto community",
       "whatsapp number for forex signals" >>

PlatformOrder == <<"facebook", "twitter", "instagram", "youtube", "telegram", "reddit">>

\* The platforms of the run's configuration
PlatformNames == SubSeq(PlatformOrder, 1, run.platforms)

\* The base phrases of the run's configuration
BasePhrases == SubSeq(SEARCH_PHRASES, 1, run.phrases)

\* scrapePublicData: searchTerms.slice(0, 5)
TermCap == 5

(***************************************************************************)
(* Sequence helpers.                                                       *)
(***************************************************************************)
Range(s) == { s[i] : i \in DOMAIN s }

\* Array.prototype.slice(-n) for n > 0
SliceLast(s, n) == IF Len(s) <= n THEN s ELSE SubSeq(s, Len(s) - n + 1, Len(s))

\* Array.prototype.slice(0, n)
SliceFirst(s, n) == IF Len(s) <= n THEN s ELSE SubSeq(s, 1, n)

RECURSIVE Flatten(_)
Flatten(ss) == IF ss = << >> THEN << >> ELSE Head(ss) \o Flatten(Tail(ss))

\* [...new Set(terms)]: a Set iterates in insertion order
RECURSIVE SetOrder(_)
SetOrder(s) ==
    IF s = << >> THEN << >>
    ELSE LET init == SetOrder(SubSeq(s, 1, Len(s) - 1))
             last == s[Len(s)]
         IN  IF last \in Range(init) THEN init ELSE Append(init, last)

(***************************************************************************)
(* Content items and candidates.                                           *)
(*                                                                         *)
(* A candidate is the text of one match of the extractor's pattern, kept   *)
(* as its sequence of tokens: digit groups (the first may carry a "+") and *)
(* the separators between them.  The content of an item is a sequence of   *)
(* segments, each either words or one such match.                          *)
(***************************************************************************)
Separators == {" ", "-", ".", "(", ")"}

RECURSIVE Text(_)
Text(toks) == IF toks = << >> THEN "" ELSE Head(toks) \o Text(Tail(toks))

USA1   == <<"+1", " ", "202", "-", "555", "-", "0101">>
USA1b  == <<"+1", "202", "555", "0101">>
UK1    == <<"+44", " ", "7911", " ", "123456">>
AUS1   == <<"+61", " ", "412", " ", "345", " ", "678">>
ESP1   == <<"+34", " ", "612", " ", "345", " ", "678">>
MEX1   == <<"+52", " ", "55", " ", "1234", " ", "5678">>
IND1   == <<"+91", " ", "98765", " ", "43210">>
SHORT1 == <<"555", "-", "0101">>
JUNK1  == <<"0000", " ", "0000", " ", "0000">>

Words(w) == [kind |-> "words", words |-> w]
Match(m) == [kind |-> "match", match |-> m]

ContentItems ==
    << [content  |-> <<Words(<<"crypto", "signals">>), Match(USA1), Words(<<"or">>), Match(USA1b)>>,
        username |-> "alice"],
       [content  |-> <<Words(<<"forex">>), Match(UK1), Match(IND1), Match(SHORT1)>>,
        username |-> ""],
       [content  |-> <<Match(AUS1), Words(<<"join", "group">>), Match(JUNK1)>>,
        username |-> "bob"],
       [content  |-> <<Match(ESP1)>>,
        username |-> "bob"],
       [content  |-> <<Words(<<"earn", "money">>), Match(MEX1)>>,
        username |-> "carol"] >>

\* The content items the platforms hold in this run: the first run.universe
ItemIds == 1..run.universe

(***************************************************************************)
(* utils/validators.js                                                     *)
(***************************************************************************)
\* number.replace(/[^\d+]/g, ''): the digits and plus signs of the text
RECURSIVE DigitsAndPlus(_)
DigitsAndPlus(text) ==
    IF Len(text) = 0 THEN ""
    ELSE LET c == SubSeq(text, 1, 1)
         IN  (IF c \in {"0", "1", "2", "3", "4", "5", "6", "7", "8", "9", "+"} THEN c ELSE "")
                 \o DigitsAndPlus(SubSeq(text, 2, Len(text)))

Clean(number) == DigitsAndPlus(Text(number))

\* The phone library (an npm dependency), on the cleaned strings of the model.
phoneLib(cleaned) ==
    CASE cleaned = "+12025550101" -> [isValid |-> TRUE, countryCode |-> "1",  phoneNumber |-> "+12025550101"]
      [] cleaned = "+447911123456" -> [isValid |-> TRUE, countryCode |-> "44", phoneNumber |-> "+447911123456"]
      [] cleaned = "+61412345678" -> [isValid |-> TRUE, countryCode |-> "61", phoneNumber |-> "+61412345678"]
      [] cleaned = "+34612345678" -> [isValid |-> TRUE, countryCode |-> "34", phoneNumber |-> "+34612345678"]
      [] cleaned = "+525512345678" -> [isValid |-> TRUE, countryCode |-> "52", phoneNumber |-> "+525512345678"]
      [] cleaned = "+919876543210" -> [isValid |-> TRUE, countryCode |-> "91", phoneNumber |-> "+919876543210"]
      [] OTHER -> [isValid |-> FALSE, countryCode |-> null, phoneNumber |-> null]

\* The validation without the check against the target list.
validatePhoneNumberAnyCountry(number) ==
    LET cleaned == Clean(number)
        result == phoneLib(cleaned)
        countryCode == "+" \o result.countryCode
        targets == SelectSeq(CountryKeys, LAMBDA k : COUNTRIES[k].code = countryCode)
    IN  IF ~result.isValid
        THEN [valid |-> FALSE, reason |-> "Invalid phone number format"]
        ELSE [valid |-> TRUE,
              formattedNumber |-> result.phoneNumber,
              country |-> IF targets = << >> THEN null ELSE COUNTRIES[Head(targets)].name,
              countryCode |-> countryCode,
              countryTag |-> IF targets = << >> THEN null ELSE Head(targets)]

\* The validation checking the target list before the format.
validatePhoneNumberCountryFirst(number) ==
    LET cleaned == Clean(number)
        result == phoneLib(cleaned)
        countryCode == "+" \o result.countryCode
        targets == SelectSeq(CountryKeys, LAMBDA k : COUNTRIES[k].code = countryCode)
    IN  IF targets = << >>
        THEN [valid |-> FALSE, reason |-> "Country not in target list"]
        ELSE IF ~result.isValid
        THEN [valid |-> FALSE, reason |-> "Invalid phone number format"]
        ELSE [valid |-> TRUE,
              formattedNumber |-> result.phoneNumber,
              country |-> COUNTRIES[Head(targets)].name,
              countryCode |-> countryCode,
              countryTag |-> Head(targets)]

validatePhoneNumber(number) ==
    LET cleaned == Clean(number)
        result == phoneLib(cleaned)
        countryCode == "+" \o result.countryCode
        targets == SelectSeq(CountryKeys, LAMBDA k : COUNTRIES[k].code = countryCode)
    IN  IF ~result.isValid
        THEN [valid |-> FALSE, reason |-> "Invalid phone number format"]
        ELSE IF targets = << >>
        THEN [valid |-> FALSE, reason |-> "Country not in target list"]
        ELSE [valid |-> TRUE,
              formattedNumber |-> result.phoneNumber,
              country |-> COUNTRIES[Head(targets)].name,
              countryCode |-> countryCode,
              countryTag |-> Head(targets)]

\* String.prototype.toLowerCase, on the letters A to Z
LowerOf ==
    [ A |-> "a", B |-> "b", C |-> "c", D |-> "d", E |-> "e", F |-> "f", G |-> "g",
      H |-> "h", I |-> "i", J |-> "j", K |-> "k", L |-> "l", M |-> "m", N |-> "n",
      O |-> "o", P |-> "p", Q |-> "q", R |-> "r", S |-> "s", T |-> "t", U |-> "u",
      V |-> "v", W |-> "w", X |-> "x", Y |-> "y", Z |-> "z" ]

RECURSIVE toLowerCase(_)
toLowerCase(text) ==
    IF Len(text) = 0 THEN ""
    ELSE LET c == SubSeq(text, 1, 1)
         IN  (IF c \in DOMAIN LowerOf THEN LowerOf[c] ELSE c)
                 \o toLowerCase(SubSeq(text, 2, Len(text)))

\* String.prototype.toUpperCase, on the letters a to z
RECURSIVE toUpperCase(_)
toUpperCase(text) ==
    IF Len(text) = 0 THEN ""
    ELSE LET c == SubSeq(text, 1, 1)
             upper == { k \in DOMAIN LowerOf : LowerOf[k] = c }
         IN  (IF upper # {} THEN CHOOSE k \in upper : TRUE ELSE c)
                 \o toUpperCase(SubSeq(text, 2, Len(text)))

\* String.prototype.includes
Includes(text, keyword) ==
    \E i \in 1..(Len(text) - Len(keyword) + 1) :
        SubSeq(text, i, i + Len(keyword) - 1) = keyword

\* keywords.some(keyword => lowerText.includes(keyword.toLowerCase()))
SomeKeyword(category, lowerText) ==
    \E k \in DOMAIN CATEGORIES[category] :
        Includes(lowerText, toLowerCase(CATEGORIES[category][k]))

\* The classification returning the last category that matches.
categorizeContentLastMatch(text) ==
    LET lowerText == toLowerCase(text)
        hits == SelectSeq(CategoryKeys, LAMBDA c : SomeKeyword(c, lowerText))
    IN  IF hits = << >> THEN "GENERAL" ELSE hits[Len(hits)]

\* Object.entries(config.CATEGORIES) iterates in the order of CategoryKeys.
categorizeContent(text) ==
    LET lowerText == toLowerCase(text)
        hits == SelectSeq(CategoryKeys, LAMBDA c : SomeKeyword(c, lowerText))
    IN  IF hits = << >> THEN "GENERAL" ELSE Head(hits)

\* The matches of phoneRegex in the text, left to right, that are at least 10
\* characters long.
extractPhoneNumbers(content) ==
    LET matches == SelectSeq(content, LAMBDA seg : seg.kind = "match")
        long == SelectSeq(matches, LAMBDA seg : Len(Text(seg.match)) >= 10)
    IN  [i \in DOMAIN long |-> long[i].match]

(***************************************************************************)
(* index.js: the pipeline of one cycle.                                    *)
(***************************************************************************)
\* The terms with those of the category ahead of the base phrases.
generateSearchTermsCategoryFirst(country, category) ==
    LET base == BasePhrases
        byCountry ==
            IF country # null /\ country \in DOMAIN COUNTRIES
            THEN [i \in DOMAIN base |-> base[i] \o " " \o COUNTRIES[country].searchTerms[1]]
            ELSE base
        categoryTerms ==
            IF category # null /\ category \in DOMAIN CATEGORIES
            THEN CATEGORIES[category] ELSE << >>
    IN  SetOrder([i \in DOMAIN categoryTerms |-> "whatsapp " \o categoryTerms[i]] \o byCountry)

generateSearchTerms(country, category) ==
    LET base == BasePhrases
        byCountry ==
            IF country # null /\ country \in DOMAIN COUNTRIES
            THEN [i \in DOMAIN base |-> base[i] \o " " \o COUNTRIES[country].searchTerms[1]]
            ELSE base
        categoryTerms ==
            IF category # null /\ category \in DOMAIN CATEGORIES
            THEN CATEGORIES[category] ELSE << >>
        withCategory ==
            IF category # null
            THEN byCountry \o [i \in DOMAIN categoryTerms |-> "whatsapp " \o categoryTerms[i]]
            ELSE byCountry
    IN  SetOrder(withCategory)

\* The entries one content item yields: one per valid extracted number.  The
\* fields of an entry that nothing in the pipeline reads back (id, category,
\* username, content, timestamp, metadata) are left out.
EntriesOfItem(item, platform) ==
    LET numbers == extractPhoneNumbers(item.content)
        valid == SelectSeq(numbers, LAMBDA n : validatePhoneNumber(n).valid)
    IN  [i \in DOMAIN valid |->
            [country |-> validatePhoneNumber(valid[i]).country,
             phoneNumber |-> valid[i],
             source |-> platform]]

processPlatformData(data, platform) ==
    Flatten([i \in DOMAIN data |-> EntriesOfItem(ContentItems[data[i].item], platform)])

\* utils/filters.js, deduplicateNumbers.  The file is not among the sources
\* at hand; by the design document (4.6) it drops every entry whose (region,
\* identifier) pair, here (country, phoneNumber), occurred earlier in the
\* sequence.
SameKey(a, b) == a.country = b.country /\ a.phoneNumber = b.phoneNumber

RECURSIVE deduplicateNumbers(_)
deduplicateNumbers(data) ==
    IF data = << >> THEN << >>
    ELSE LET init == deduplicateNumbers(SubSeq(data, 1, Len(data) - 1))
             last == data[Len(data)]
         IN  IF \E i \in DOMAIN init : SameKey(init[i], last)
             THEN init ELSE Append(init, last)

\* The size limit keeping one entry too many.
LimitSizeOffByOne(data) ==
    IF Len(data) > MaxEntries THEN SliceLast(data, MaxEntries + 1) ELSE data

\* The size limit dropping only the oldest entry.
LimitSizeDropsOne(data) ==
    IF Len(data) > MaxEntries THEN Tail(data) ELSE data

\* The size limit keeping the oldest entries.
LimitSizeKeepsOldest(data) ==
    IF Len(data) > MaxEntries THEN SliceFirst(data, MaxEntries) ELSE data

\* runCollectionCycle: "Limit collection size"
LimitSize(data) ==
    IF Len(data) > MaxEntries THEN SliceLast(data, MaxEntries) ELSE data

\* The merge deduplicating the new entries only.
MergeDedupNewOnly(data, newEntries) ==
    LimitSize(data \o deduplicateNumbers(newEntries))

\* runCollectionCycle, from the push of the new entries to the size limit
MergeEntries(data, newEntries) ==
    LimitSize(deduplicateNumbers(data \o newEntries))

\* What the spec calls Reconcile: deduplicate, then cap.
Reconcile(data) == MergeEntries(data, << >>)

(***************************************************************************)
(* State.                                                                  *)
(***************************************************************************)
\* session middleware: defaultSession
defaultSession == [collecting |-> FALSE, activeCountry |-> null, activeCategory |-> null]

\* What a finished cycle did: the requests it sent (their number, and the
\* platform and term of each in the order sent), whether one of them failed,
\* the entries its successful requests yielded, and how many entries its merge
\* appended, removed as duplicates and dropped to keep the size limit.
NoCycle == [requests |-> 0, log |-> << >>, failed |-> FALSE, got |-> << >>,
            appended |-> 0, duplicates |-> 0, dropped |-> 0]

\* who is the chat of a command or of a timer's ctx, or the cycle a continuation
\* belongs to; merged tells whether the callback ran a cycle's merge.
Op(name, who, reply) ==
    [op |-> name, who |-> who, reply |-> reply, merged |-> FALSE, cycle |-> NoCycle]

\* Every entry a cycle can produce.
AllEntries ==
    UNION { Range(EntriesOfItem(ContentItems[i], PlatformNames[p])) :
                i \in ItemIds, p \in DOMAIN PlatformNames }

\* The data files a process can find at start: what an earlier run saved
\* (reconciled, since every save follows a load or a merge).  A file that is
\* not there is a read that fails.
InitialFiles ==
    { f \in UNION { [1..n -> AllEntries] : n \in 0..run.file } : Reconcile(f) = f }

\* The process before initializeBot, bounded and configured by r; every
\* platform is enabled or not.
InitRun(r) ==
    /\ input = null
    /\ run = r
    /\ pc = "boot"
    /\ enabled \in [Range(PlatformNames) -> BOOLEAN]
    /\ dataFile \in InitialFiles
    /\ collectedData = << >>
    /\ collectionInterval = 0
    /\ session = [c \in Chats |-> defaultSession]
    /\ intervals = {}
    /\ timeouts = {}
    /\ starts = << >>
    /\ cycles = << >>
    /\ lastOp = Op("none", 0, "")

(***************************************************************************)
(* Persistence.                                                            *)
(***************************************************************************)
\* loadData, awaited by initializeBot before the bot is launched.  readOk is
\* whether readFile and JSON.parse succeed.
loadData(readOk) ==
    /\ pc = "boot"
    /\ pc' = "ready"
    /\ collectedData' = IF readOk THEN dataFile ELSE << >>
    /\ lastOp' = Op("load", 0, IF readOk THEN "loaded" ELSE "starting fresh")
    /\ UNCHANGED <<input, run, enabled, dataFile, collectionInterval, session, intervals,
                   timeouts, starts, cycles>>

\* saveData: the file after the call.  JSON.stringify takes the snapshot at
\* the call; a failed write is logged and leaves the file as it was.
Saved(writeOk) == IF writeOk THEN collectedData ELSE dataFile

\* The auto-save whose failed write is not caught and ends the process, timers
\* and cycles with it.
AutoSaveFailureEndsProcess(writeOk) ==
    /\ pc = "ready"
    /\ dataFile' = IF Len(collectedData) > 0 THEN Saved(writeOk) ELSE dataFile
    /\ lastOp' = Op("autosave", 0, IF writeOk THEN "saved" ELSE "error")
    /\ IF writeOk \/ Len(collectedData) = 0
       THEN UNCHANGED <<collectionInterval, intervals, timeouts, cycles>>
       ELSE /\ collectionInterval' = 0
            /\ intervals' = {}
            /\ timeouts' = {}
            /\ cycles' = << >>
    /\ UNCHANGED <<input, run, pc, enabled, collectedData, session, starts>>

\* initializeBot: the auto-save timer's callback
AutoSave(writeOk) ==
    /\ pc = "ready"
    /\ dataFile' = IF Len(collectedData) > 0 THEN Saved(writeOk) ELSE dataFile
    /\ lastOp' = Op("autosave", 0, IF writeOk THEN "saved" ELSE "error")
    /\ UNCHANGED <<input, run, pc, enabled, collectedData, collectionInterval, session,
                   intervals, timeouts, starts, cycles>>

(***************************************************************************)
(* Scheduler.                                                              *)
(***************************************************************************)
\* The session of chat c that is running: its latest start, if not ended.
\* ctx.session is one object per chat, shared by every ctx of that chat, the
\* ones held by timer closures included.
Current(c) ==
    LET mine == { s \in DOMAIN starts : starts[s].chat = c /\ starts[s].endedBy = "none" }
    IN  IF mine = {} THEN 0 ELSE CHOOSE s \in mine : \A r \in mine : r <= s

\* startCollection(ctx, country, category), ctx being of chat c
startCollection(c, country, category) ==
    /\ pc = "ready"
    /\ IF session[c].collecting
       THEN /\ lastOp' = Op("start", c, "already running")
            /\ UNCHANGED <<session, collectionInterval, intervals, timeouts, starts>>
       ELSE /\ Len(starts) < run.sessions
            /\ LET sid == Len(starts) + 1 IN
               /\ session' = [session EXCEPT ![c] =
                     [collecting |-> TRUE, activeCountry |-> country, activeCategory |-> category]]
               /\ collectionInterval' = sid
               /\ intervals' = intervals \cup {sid}
               /\ timeouts' = timeouts \cup {sid}
               /\ starts' = Append(starts,
                     [chat |-> c, country |-> country, category |-> category,
                      endedBy |-> "none", before |-> session[c]])
               /\ lastOp' = Op("start", c, "starting")
    /\ UNCHANGED <<input, run, pc, enabled, dataFile, collectedData, cycles>>

\* The collect command passing the filters of the session on.
CollectWithSessionFilters(c) ==
    startCollection(c, session[c].activeCountry, session[c].activeCategory)

\* bot.command('collect')
Collect(c) == startCollection(c, null, null)

\* bot.command('country'); arg is args[1], null when the command has no argument
Country(c, arg) ==
    LET countryCode == IF arg # null THEN toUpperCase(arg) ELSE null
    IN  /\ pc = "ready"
        /\ IF countryCode = null \/ countryCode \notin DOMAIN COUNTRIES
           THEN /\ lastOp' = Op("country", c, "specify a valid country code")
                /\ UNCHANGED session
           ELSE /\ session' = [session EXCEPT ![c].activeCountry = countryCode]
                /\ lastOp' = Op("country", c, "now focusing")
        /\ UNCHANGED <<input, run, pc, enabled, dataFile, collectedData, collectionInterval,
                       intervals, timeouts, starts, cycles>>

\* bot.command('crypto') and bot.command('earning')
SetCategory(c, category) ==
    /\ pc = "ready"
    /\ session' = [session EXCEPT ![c].activeCategory = category]
    /\ lastOp' = Op("category", c, "now collecting")
    /\ UNCHANGED <<input, run, pc, enabled, dataFile, collectedData, collectionInterval,
                   intervals, timeouts, starts, cycles>>

Crypto(c) == SetCategory(c, "CRYPTO")

Earning(c) == SetCategory(c, "EARNING")

\* stopCollection setting the flag instead of resetting it.
stopCollectionSetsFlag(c, by, writeOk) ==
    /\ intervals' = IF collectionInterval # 0 THEN intervals \ {collectionInterval} ELSE intervals
    /\ collectionInterval' = 0
    /\ session' = [session EXCEPT ![c].collecting = TRUE]
    /\ starts' = IF Current(c) # 0
                 THEN [starts EXCEPT ![Current(c)].endedBy = by] ELSE starts
    /\ dataFile' = Saved(writeOk)

\* stopCollection(ctx), ctx being of chat c; by is who called it
stopCollection(c, by, writeOk) ==
    /\ intervals' = IF collectionInterval # 0 THEN intervals \ {collectionInterval} ELSE intervals
    /\ collectionInterval' = 0
    /\ session' = [session EXCEPT ![c].collecting = FALSE]
    /\ starts' = IF Current(c) # 0
                 THEN [starts EXCEPT ![Current(c)].endedBy = by] ELSE starts
    /\ dataFile' = Saved(writeOk)

\* bot.command('stop')
Stop(c, writeOk) ==
    /\ pc = "ready"
    /\ stopCollection(c, "manual", writeOk)
    /\ lastOp' = Op("stop", c, "stopped and saved")
    /\ UNCHANGED <<input, run, pc, enabled, collectedData, timeouts, cycles>>

\* startCollection: the setTimeout callback of start sid
AutoStop(sid, writeOk) ==
    /\ sid \in timeouts
    /\ timeouts' = timeouts \ {sid}
    /\ stopCollection(starts[sid].chat, "auto", writeOk)
    /\ lastOp' = Op("autostop", starts[sid].chat, "stopped automatically")
    /\ UNCHANGED <<input, run, pc, enabled, collectedData, cycles>>

(***************************************************************************)
(* Cycle runner.                                                           *)
(***************************************************************************)
\* The filter ignoring the enabled flag.
EnabledPlatformsIgnoresFlag == PlatformNames

\* Object.keys(config.PLATFORMS).filter(p => config.PLATFORMS[p].enabled)
EnabledPlatforms == SelectSeq(PlatformNames, LAMBDA p : enabled[p])

\* The platforms scrapePublicData has a case for; any other gets no request.
Implemented == {"twitter", "facebook", "instagram", "youtube", "reddit"}

\* Every term asked for, without the cap.
TermsOfUncapped(cy) == generateSearchTerms(cy.country, cy.category)

\* scrapePublicData: the terms one platform is asked for
TermsOf(cy) == SliceFirst(generateSearchTerms(cy.country, cy.category), TermCap)

PlatformOf(cy) == EnabledPlatforms[cy.p]

\* A cycle that has just been called, waiting out the delay before its first
\* request.  requests, log, failed and got record what it has done so far.
NewCycle(sid) ==
    [timer |-> sid, country |-> starts[sid].country, category |-> starts[sid].category,
     p |-> 1, t |-> 1, phase |-> "delay", results |-> << >>, newEntries |-> << >>,
     items |-> 0, requests |-> 0, log |-> << >>, failed |-> FALSE, got |-> << >>]

RemoveAt(s, i) == SubSeq(s, 1, i - 1) \o SubSeq(s, i + 1, Len(s))

\* The value returned counting the new entries that survive deduplication.
ReturnedAfterDedup(data, newEntries) ==
    Len(deduplicateNumbers(data \o newEntries)) - Len(data)

\* runCollectionCycle: return newEntries.length
Returned(data, newEntries) == Len(newEntries)

\* runCollectionCycle from "Add new entries to main collection" to its return;
\* appended is the value returned
FinishCycle(cy, newEntries, op) ==
    LET pushed == collectedData \o newEntries
        unique == deduplicateNumbers(pushed)
    IN  /\ collectedData' = MergeEntries(collectedData, newEntries)
        /\ lastOp' = [op EXCEPT !.merged = TRUE,
                                !.cycle = [requests |-> cy.requests, log |-> cy.log,
                                           failed |-> cy.failed,
                                           got |-> cy.got,
                                           appended |-> Returned(collectedData, newEntries),
                                           duplicates |-> Len(pushed) - Len(unique),
                                           dropped |-> Len(unique) - Len(LimitSize(unique))]]

\* The catch around the loop over the terms: a failure ends the platform's
\* scrape with nothing.
AfterFailureAborts(cy) ==
    [cy EXCEPT !.failed = TRUE, !.t = Len(TermsOf(cy)), !.results = << >>]

\* scrapePublicData after the request for a term has failed: the catch is
\* inside the loop over the terms, so the loop goes on
AfterFailure(cy) == [cy EXCEPT !.failed = TRUE]

\* The cycle's continuation once the request for term cy.t of platform cy.p has
\* settled with platformResults (empty when it failed): on to the next term, to
\* the next platform, or to the merge.
Continue(i, cy, platformResults, op) ==
    LET results == cy.results \o
                   [k \in DOMAIN platformResults |->
                       [item |-> platformResults[k], searchTerm |-> TermsOf(cy)[cy.t],
                        platform |-> PlatformOf(cy)]]
        yielded == Flatten([k \in DOMAIN platformResults |->
                       EntriesOfItem(ContentItems[platformResults[k]], PlatformOf(cy))])
        counted == [cy EXCEPT !.items = @ + Len(platformResults), !.got = @ \o yielded]
    IN  IF cy.t < Len(TermsOf(cy))
        THEN /\ cycles' = [cycles EXCEPT ![i] =
                    [counted EXCEPT !.t = @ + 1, !.phase = "delay", !.results = results]]
             /\ lastOp' = op
             /\ UNCHANGED collectedData
        ELSE LET newEntries == cy.newEntries \o processPlatformData(results, PlatformOf(cy))
             IN  IF cy.p < Len(EnabledPlatforms)
                 THEN /\ cycles' = [cycles EXCEPT ![i] =
                             [counted EXCEPT !.p = @ + 1, !.t = 1, !.phase = "delay",
                                             !.results = << >>, !.newEntries = newEntries]]
                      /\ lastOp' = op
                      /\ UNCHANGED collectedData
                 ELSE /\ cycles' = RemoveAt(cycles, i)
                      /\ FinishCycle(counted, newEntries, op)

\* startCollection: the setInterval callback of start sid, up to its first await
Tick(sid) ==
    /\ sid \in intervals
    /\ Len(cycles) < run.inflight
    /\ IF EnabledPlatforms = << >>
       THEN /\ FinishCycle(NewCycle(sid), << >>, Op("tick", starts[sid].chat, "update"))
            /\ UNCHANGED cycles
       ELSE /\ cycles' = Append(cycles, NewCycle(sid))
            /\ lastOp' = Op("tick", starts[sid].chat, "")
            /\ UNCHANGED collectedData
    /\ UNCHANGED <<input, run, pc, enabled, dataFile, collectionInterval, session, intervals,
                   timeouts, starts>>

\* scrapePublicData: this.delay(...) has resolved; the request for the term goes out
DelayElapsed(i) ==
    /\ i \in DOMAIN cycles
    /\ cycles[i].phase = "delay"
    /\ IF PlatformOf(cycles[i]) \in Implemented
       THEN /\ cycles' = [cycles EXCEPT ![i].phase = "fetch", ![i].requests = @ + 1,
                                        ![i].log = Append(@,
                                            [platform |-> PlatformOf(cycles[i]),
                                             term |-> TermsOf(cycles[i])[cycles[i].t]])]
            /\ lastOp' = Op("request", i, "")
            /\ UNCHANGED collectedData
       ELSE Continue(i, cycles[i], << >>, Op("request", i, "not implemented"))
    /\ UNCHANGED <<input, run, pc, enabled, dataFile, collectionInterval, session, intervals,
                   timeouts, starts>>

\* scrapePublicData: the request has returned platformResults
FetchDone(i, platformResults) ==
    /\ i \in DOMAIN cycles
    /\ cycles[i].phase = "fetch"
    /\ cycles[i].items + Len(platformResults) <= run.items
    /\ Continue(i, cycles[i], platformResults, Op("fetch", i, "ok"))
    /\ UNCHANGED <<input, run, pc, enabled, dataFile, collectionInterval, session, intervals,
                   timeouts, starts>>

\* scrapePublicData: the request has thrown; the catch logs it
FetchFailed(i) ==
    /\ i \in DOMAIN cycles
    /\ cycles[i].phase = "fetch"
    /\ Continue(i, AfterFailure(cycles[i]), << >>, Op("fetch", i, "error"))
    /\ UNCHANGED <<input, run, pc, enabled, dataFile, collectionInterval, session, intervals,
                   timeouts, starts>>

\* What one request can return: nothing, or one content item.
FetchResults == {<< >>} \cup { <<k>> : k \in ItemIds }

Next ==
    \/ \E readOk \in BOOLEAN : loadData(readOk)
    \/ \E writeOk \in BOOLEAN : AutoSave(writeOk)
    \/ \E c \in Chats : Collect(c)
    \/ \E c \in Chats, writeOk \in BOOLEAN : Stop(c, writeOk)
    \/ \E sid \in DOMAIN starts, writeOk \in BOOLEAN : AutoStop(sid, writeOk)
    \/ \E sid \in DOMAIN starts : Tick(sid)
    \/ \E i \in DOMAIN cycles : DelayElapsed(i)
    \/ \E i \in DOMAIN cycles, r \in FetchResults : FetchDone(i, r)
    \/ \E i \in DOMAIN cycles : FetchFailed(i)

SchedRun ==
    [chats |-> SchedChats, sessions |-> SchedSessions, inflight |-> SchedInFlight,
     platforms |-> SchedPlatforms, phrases |-> SchedPhrases, universe |-> SchedUniverse, items |-> SchedItems,
     file |-> SchedFile]

CycleRun ==
    [chats |-> CycleChats, sessions |-> CycleSessions, inflight |-> CycleInFlight,
     platforms |-> CyclePlatforms, phrases |-> CyclePhrases, universe |-> CycleUniverse, items |-> CycleItems,
     file |-> CycleFile]

DataRun ==
    [chats |-> DataChats, sessions |-> DataSessions, inflight |-> DataInFlight,
     platforms |-> DataPlatforms, phrases |-> DataPhrases, universe |-> DataUniverse, items |-> DataItems,
     file |-> DataFile]

Init == InitRun(SchedRun)
Spec == Init /\ [][Next]_vars

\* The scheduler with its one-shot timers firing: a timeout that is armed stays
\* armed until it fires, and the runtime fires it once its duration is over.
TimeoutsFire ==
    \A sid \in 1..SchedSessions : WF_vars(\E writeOk \in BOOLEAN : AutoStop(sid, writeOk))

SpecLive == Init /\ [][Next]_vars /\ TimeoutsFire

FilterRun ==
    [chats |-> FilterChats, sessions |-> FilterSessions, inflight |-> FilterInFlight,
     platforms |-> FilterPlatforms, phrases |-> FilterPhrases, universe |-> FilterUniverse,
     items |-> FilterItems, file |-> FilterFile]

\* What follows /country: nothing, a code in lower case, a code, no code.
CountryArgs == {null, "usa", "MEXICO", "FRANCE"}

\* The scheduler with the commands that set the filters of a session.
NextFilter ==
    \/ Next
    \/ \E c \in Chats, arg \in CountryArgs : Country(c, arg)
    \/ \E c \in Chats : Crypto(c)
    \/ \E c \in Chats : Earning(c)

InitFilter == InitRun(FilterRun)
SpecFilter == InitFilter /\ [][NextFilter]_vars

InitCycle == InitRun(CycleRun)
SpecCycle == InitCycle /\ [][Next]_vars

InitData == InitRun(DataRun)
SpecData == InitData /\ [][Next]_vars

(***************************************************************************)
(* The reconcile pass on its own: the deduplication and the size limit of  *)
(* runCollectionCycle applied, repeatedly, to a collection of any content. *)
(***************************************************************************)
ReconcileRun ==
    [chats |-> 1, sessions |-> 0, inflight |-> 0, platforms |-> ReconcilePlatforms,
     phrases |-> 1, universe |-> ReconcileUniverse, items |-> 0, file |-> 0]

\* The collections of n entries
Collections(n) == [1..n -> AllEntries]

InitReconcile ==
    /\ input = null
    /\ run = ReconcileRun
    /\ pc = "reconcile"
    /\ enabled = [p \in Range(PlatformNames) |-> TRUE]
    /\ \E n \in 0..MaxCollection : collectedData \in Collections(n)
    /\ dataFile = << >>
    /\ collectionInterval = 0
    /\ session = [c \in Chats |-> defaultSession]
    /\ intervals = {}
    /\ timeouts = {}
    /\ starts = << >>
    /\ cycles = << >>
    /\ lastOp = Op("none", 0, "")

\* One more pass.  lastOp counts the passes, tells whether this one changed
\* the collection, and keeps what the first one removed.
ReconcilePass ==
    LET unique == deduplicateNumbers(collectedData)
        first == [NoCycle EXCEPT !.duplicates = Len(collectedData) - Len(unique),
                                 !.dropped = Len(unique) - Len(LimitSize(unique))]
    IN  /\ pc = "reconcile"
        /\ lastOp.who < MaxPasses
        /\ collectedData' = Reconcile(collectedData)
        /\ lastOp' = [Op("reconcile", lastOp.who + 1,
                         IF collectedData' = collectedData THEN "unchanged" ELSE "changed")
                         EXCEPT !.cycle = IF lastOp.who = 0 THEN first ELSE lastOp.cycle]
        /\ UNCHANGED <<input, run, pc, enabled, dataFile, collectionInterval, session, intervals,
                       timeouts, starts, cycles>>

NextReconcile == ReconcilePass

SpecReconcile == InitReconcile /\ [][NextReconcile]_vars

(***************************************************************************)
(* A function of utils/validators.js applied on its own to one argument.   *)
(***************************************************************************)
\* No process is running: nothing is configured, loaded or armed.
NoRun ==
    [chats |-> 0, sessions |-> 0, inflight |-> 0, platforms |-> 0,
     phrases |-> 0, universe |-> 0, items |-> 0, file |-> 0]

\* The function named by what is about to be applied to one of inputs.
InitApply(what, inputs) ==
    /\ input \in inputs
    /\ run = NoRun
    /\ pc = what
    /\ enabled = << >>
    /\ dataFile = << >>
    /\ collectedData = << >>
    /\ collectionInterval = 0
    /\ session = << >>
    /\ intervals = {}
    /\ timeouts = {}
    /\ starts = << >>
    /\ cycles = << >>
    /\ lastOp = Op("none", 0, "")

\* The words the texts to classify are made of: keywords of the four
\* categories, in either case, and words that are no keyword.
ClassifyWords ==
    {"Join", "BINANCE", "signal", "group", "forex", "Earn", "hello", "investment",
     "Money", "making"}

RECURSIVE JoinWords(_)
JoinWords(ws) ==
    IF ws = << >> THEN ""
    ELSE IF Len(ws) = 1 THEN ws[1]
    ELSE ws[1] \o " " \o JoinWords(Tail(ws))

\* The texts of up to MaxWords words
ClassifyTexts ==
    { JoinWords(ws) : ws \in UNION { [1..n -> ClassifyWords] : n \in 0..MaxWords } }

InitClassify == InitApply("classify", ClassifyTexts)

\* categorizeContent(input); the reply is what it returns
Classify ==
    /\ pc = "classify"
    /\ lastOp.op = "none"
    /\ lastOp' = Op("classify", 0, categorizeContent(input))
    /\ UNCHANGED <<input, run, pc, enabled, dataFile, collectedData, collectionInterval,
                   session, intervals, timeouts, starts, cycles>>

NextClassify == Classify

SpecClassify == InitClassify /\ [][NextClassify]_vars

\* The digit groups of the numbers candidates are written from, and texts
\* that hold no number.
DigitGroups ==
    { <<"+1", "202", "555", "0101">>, <<"+44", "7911", "123456">>,
      <<"+61", "412", "345", "678">>, <<"+34", "612", "345", "678">>,
      <<"+52", "55", "1234", "5678">>, <<"+91", "98765", "43210">>,
      <<"0000", "0000", "0000">>, <<"555", "0101">>, <<"not", "a", "number">> }

\* What stands between two groups: nothing, or one of the first
\* MaxSeparators separators.
Between == {""} \cup Range(SubSeq(<<" ", "-", ".", "(", ")">>, 1, MaxSeparators))

\* The groups g written with the separators seps between them.
Written(g, seps) ==
    [k \in 1..(2 * Len(g) - 1) |-> IF k % 2 = 1 THEN g[(k + 1) \div 2] ELSE seps[k \div 2]]

ValidateCandidates ==
    UNION { { Written(g, seps) : seps \in [1..(Len(g) - 1) -> Between] } : g \in DigitGroups }

InitValidate == InitApply("validate", ValidateCandidates)

\* validatePhoneNumber(input); the reply is what it returns
Validate ==
    /\ pc = "validate"
    /\ lastOp.op = "none"
    /\ lastOp' = Op("validate", 0, validatePhoneNumber(input))
    /\ UNCHANGED <<input, run, pc, enabled, dataFile, collectedData, collectionInterval,
                   session, intervals, timeouts, starts, cycles>>

NextValidate == Validate

SpecValidate == InitValidate /\ [][NextValidate]_vars

(***************************************************************************)
(* The terms one platform is asked for, as a function of the two filters   *)
(* and of how many of the base phrases are configured.                     *)
(***************************************************************************)
\* The filters runCollectionCycle can be called with: none, a configured key,
\* a key that is not configured.
TermFilters ==
    [country : {null, "FRANCE"} \cup Range(CountryKeys),
     category : {null, "OTHER"} \cup Range(CategoryKeys)]

InitTerms ==
    /\ input \in TermFilters
    /\ \E n \in 0..Len(SEARCH_PHRASES) : run = [NoRun EXCEPT !.phrases = n]
    /\ pc = "terms"
    /\ enabled = << >>
    /\ dataFile = << >>
    /\ collectedData = << >>
    /\ collectionInterval = 0
    /\ session = << >>
    /\ intervals = {}
    /\ timeouts = {}
    /\ starts = << >>
    /\ cycles = << >>
    /\ lastOp = Op("none", 0, "")

\* generateSearchTerms(input.country, input.category), then the slice of
\* scrapePublicData; the reply is the terms requested
RequestedTerms ==
    /\ pc = "terms"
    /\ lastOp.op = "none"
    /\ lastOp' = Op("terms", 0, TermsOf(input))
    /\ UNCHANGED <<input, run, pc, enabled, dataFile, collectedData, collectionInterval,
                   session, intervals, timeouts, starts, cycles>>

NextTerms == RequestedTerms

SpecTerms == InitTerms /\ [][NextTerms]_vars

TypeOK ==
    /\ pc \in {"boot", "ready"}
    /\ collectionInterval \in 0..run.sessions
    /\ intervals \subseteq DOMAIN starts
    /\ timeouts \subseteq DOMAIN starts
    /\ Len(cycles) <= run.inflight

(***************************************************************************)
(* Properties.                                                             *)
(***************************************************************************)
\* The scheduler is Idle: no chat's session is collecting.
Idle == \A c \in Chats : ~session[c].collecting

Running == { c \in Chats : session[c].collecting }

NoDuplicates(data) ==
    \A i, j \in DOMAIN data : i # j => ~SameKey(data[i], data[j])

\* C1: whatever starts, stops and auto-stops have been made, from whichever
\* chats, at most one recurring cycle timer is armed in the process and at most
\* one session is active.
C1_OneTimerOneSession ==
    /\ Cardinality(intervals) <= 1
    /\ Cardinality(Running) <= 1

\* C2: once a session has been stopped by hand, neither the recurring timer
\* nor the auto-stop timer its start armed fires again.
C2_StoppedTimersNeverFire ==
    [][\A sid \in DOMAIN starts :
          starts[sid].endedBy = "manual" =>
              /\ ~Tick(sid)
              /\ \A writeOk \in BOOLEAN : ~AutoStop(sid, writeOk)]_vars

\* C3: at most one collection cycle is in progress at any moment.
C3_CyclesSerialized == Len(cycles) <= 1

\* C4: the collection in memory and every snapshot written to disk hold at
\* most the configured maximum of entries.
C4_SizeBounded ==
    /\ Len(collectedData) <= MaxEntries
    /\ Len(dataFile) <= MaxEntries

\* C4 witness: a merge has just dropped entries to keep the limit.
C4_Witness == lastOp.merged /\ lastOp.cycle.dropped > 0

\* C5: when a cycle has merged, no two entries of the collection share their
\* (country, phoneNumber) pair.
C5_NoDuplicatesAfterMerge == lastOp.merged => NoDuplicates(collectedData)

\* C5 witness: a merge has just removed duplicates.
C5_Witness == lastOp.merged /\ lastOp.cycle.duplicates > 0

\* The requests a whole cycle sends: one per term and enabled platform that
\* has a scraper.
RequestsOfCycle ==
    Len(SelectSeq(EnabledPlatforms, LAMBDA p : p \in Implemented))
        * Len(SliceFirst(generateSearchTerms(null, null), TermCap))

\* C6: a failed request leaves the scheduler as it is and the cycle going; a
\* cycle that merges has sent all of its requests, failed ones or not, and
\* merges exactly the entries its successful requests yielded.
C6_FailedFetchDoesNotAbort ==
    [][/\ \A i \in DOMAIN cycles :
             FetchFailed(i) =>
                 /\ UNCHANGED <<session, collectionInterval, intervals, timeouts>>
                 /\ lastOp'.merged \/ Len(cycles') = Len(cycles)
       /\ lastOp'.merged =>
             /\ lastOp'.cycle.requests = RequestsOfCycle
             /\ collectedData' = MergeEntries(collectedData, lastOp'.cycle.got)]_vars

\* C6 witness: a cycle with a failed request has merged the entries of its
\* other requests, and the session is still collecting.
C6_Witness ==
    /\ lastOp.merged
    /\ lastOp.cycle.failed
    /\ lastOp.cycle.got # << >>
    /\ Running # {}
    /\ intervals # {}

\* C7: the auto-stop notification has been sent for a session exactly if that
\* session was ended by the auto-stop (the timer that sends it is disarmed by
\* firing only).
C7_AutoNoticeOnlyForAutoStopped ==
    \A sid \in DOMAIN starts :
        (sid \notin timeouts) <=> (starts[sid].endedBy = "auto")

\* C8: a stop of a running session completes only when no cycle is in flight
\* any more, and while the scheduler stays Idle the collection does not change.
C8_StopWaitsForCycle ==
    [][/\ \A c \in Chats, writeOk \in BOOLEAN :
             session[c].collecting /\ Stop(c, writeOk) => cycles' = << >>
       /\ pc = "ready" /\ Idle /\ Idle' => collectedData' = collectedData]_vars

\* C9: a stop called while the scheduler is Idle changes neither the sessions,
\* nor the timers, nor the cycles, nor the collection in memory.
C9_StopWhenIdleIsNoOp ==
    [][\A c \in Chats, writeOk \in BOOLEAN :
          Idle /\ Stop(c, writeOk) =>
              UNCHANGED <<session, collectionInterval, intervals, timeouts, starts,
                          cycles, collectedData>>]_vars

\* C9 witness: a stop has been called with no start ever made, on a collection
\* that is not empty.
C9_Witness ==
    /\ lastOp.op = "stop"
    /\ starts = << >>
    /\ collectedData # << >>

\* C10: a second reconcile pass changes nothing.
C10_ReconcileIdempotent ==
    lastOp.op = "reconcile" /\ lastOp.who >= 2 => lastOp.reply = "unchanged"

\* C10 witness: two passes have been made on a collection that had duplicates
\* and, without them, more entries than the limit.
C10_Witness ==
    /\ lastOp.op = "reconcile"
    /\ lastOp.who = 2
    /\ lastOp.cycle.duplicates > 0
    /\ lastOp.cycle.dropped > 0

\* The positions of data that hold the first occurrence of their key.
FirstOccurrences(data) ==
    { i \in DOMAIN data : \A j \in 1..(i - 1) : ~SameKey(data[j], data[i]) }

\* The entries of data at the positions in S, in the order of data.
Picked(data, S) ==
    [k \in 1..Cardinality(S) |->
        data[CHOOSE i \in S : Cardinality({ j \in S : j <= i }) = k]]

\* The last n positions of S (all of S when it has no more than n).
LatestOf(S, n) == { i \in S : Cardinality({ j \in S : j > i }) < n }

\* C11: the merge of a cycle leaves the first occurrence of every (country,
\* phoneNumber) pair of the collection followed by the new entries, in that
\* order, cut down to the MaxEntries latest of them; a full collection with one
\* new entry of a key it does not hold becomes its own tail followed by the new
\* entry.
C11_KeepFirstThenLatest ==
    [][lastOp'.merged =>
          LET pushed == collectedData \o lastOp'.cycle.got
          IN  /\ collectedData' =
                    Picked(pushed, LatestOf(FirstOccurrences(pushed), MaxEntries))
              /\ ( /\ Len(collectedData) = MaxEntries
                   /\ Len(lastOp'.cycle.got) = 1
                   /\ \A i \in DOMAIN collectedData :
                          ~SameKey(collectedData[i], lastOp'.cycle.got[1]) )
                 => collectedData' = Tail(collectedData) \o lastOp'.cycle.got]_vars

\* C11 witness: a merge has both removed duplicates and dropped the oldest
\* entries.
C11_Witness ==
    /\ lastOp.merged
    /\ lastOp.cycle.duplicates > 0
    /\ lastOp.cycle.dropped > 0

\* Every platform of the configuration is disabled.
AllDisabled == \A p \in Range(PlatformNames) : ~enabled[p]

\* C12: with every platform disabled, a tick of the cycle timer runs the whole
\* cycle at once: it sends no request, counts 0 new entries and leaves the
\* collection as it was; no cycle is ever left waiting on a request.
C12_AllDisabledCycleIsNoOp ==
    [][AllDisabled =>
          /\ cycles' = << >>
          /\ \A sid \in DOMAIN starts :
                Tick(sid) => /\ lastOp'.merged
                             /\ lastOp'.cycle.requests = 0
                             /\ lastOp'.cycle.appended = 0
                             /\ collectedData' = collectedData]_vars

\* C12 witness: such a cycle has run on a full collection.
C12_Witness ==
    /\ AllDisabled
    /\ lastOp.merged
    /\ Len(collectedData) = MaxEntries

\* The requests of log that went to platform p, in the order sent.
SentTo(log, p) == SelectSeq(log, LAMBDA r : r.platform = p)

\* Every request of log went to an enabled platform, and the requests to one
\* platform are, in order, for the leading terms of terms, five at most.
WithinCap(log, terms) ==
    \A p \in Range(PlatformOrder) :
        LET mine == SentTo(log, p)
        IN  /\ mine # << >> => p \in Range(PlatformNames) /\ enabled[p]
            /\ Len(mine) <= 5
            /\ Len(mine) <= Len(terms)
            /\ \A k \in DOMAIN mine : mine[k].term = terms[k]

\* C13: the requests of a cycle, in progress or just merged, go to enabled
\* platforms only and, for each platform, are for the first terms of the
\* cycle's de-duplicated terms in order, never more than 5.  (Every start of
\* the model is bot.command('collect'), which sets no filter.)
C13_FirstFiveTermsOfEnabled ==
    /\ \A i \in DOMAIN cycles :
          WithinCap(cycles[i].log,
                    generateSearchTerms(cycles[i].country, cycles[i].category))
    /\ lastOp.merged => WithinCap(lastOp.cycle.log, generateSearchTerms(null, null))

\* C13 witness: a cycle over more than 5 terms has merged after sending 5
\* requests to a platform.
C13_Witness ==
    /\ lastOp.merged
    /\ Len(generateSearchTerms(null, null)) > 5
    /\ \E p \in Range(PlatformNames) : Len(SentTo(lastOp.cycle.log, p)) = 5

\* The cycles whose request to platform p is in progress.
FetchingFrom(p) ==
    { i \in DOMAIN cycles : cycles[i].phase = "fetch" /\ PlatformOf(cycles[i]) = p }

\* C14: at no moment are two requests to the same platform in progress; a
\* request goes out only after the platform's delay has been waited out since
\* the previous request to it returned, which excludes a request going out
\* while another one to that platform has not returned yet.
C14_OneFetchPerSourceAtATime ==
    \A p \in Range(PlatformNames) : Cardinality(FetchingFrom(p)) <= 1

\* The names and the codes of the configured target countries.
TargetNames == { COUNTRIES[k].name : k \in Range(CountryKeys) }
TargetCodes == { COUNTRIES[k].code : k \in Range(CountryKeys) }

\* An entry of a target country: its country is a configured name and its
\* number starts with a configured code.
OfTargetCountry(e) == e.country \in TargetNames /\ Head(e.phoneNumber) \in TargetCodes

\* C15: every entry a cycle has produced, is about to append or has appended,
\* and every entry of the collection, is of a configured target country.
C15_OnlyTargetCountriesStored ==
    /\ \A i \in DOMAIN cycles :
          \A e \in Range(cycles[i].got) \cup Range(cycles[i].newEntries) : OfTargetCountry(e)
    /\ \A e \in Range(lastOp.cycle.got) : OfTargetCountry(e)
    /\ \A e \in Range(collectedData) : OfTargetCountry(e)

\* C15 witness: a cycle has merged the one entry of the content item that also
\* holds a well-formed number of a country that is not targeted and a match
\* that is too short.
C15_Witness ==
    /\ lastOp.merged
    /\ Len(lastOp.cycle.got) = 1
    /\ lastOp.cycle.got[1].phoneNumber = UK1
    /\ \E k \in DOMAIN ContentItems[2].content :
          ContentItems[2].content[k] = Match(IND1)
    /\ ~validatePhoneNumber(IND1).valid

\* The canonical number of an entry: what the validator returns as
\* formattedNumber for the number the entry stores.
Canonical(e) == validatePhoneNumber(e.phoneNumber).formattedNumber

\* C16: when a cycle has merged, the number stored in each entry it appended is
\* the canonical number the validator returned for it, and no two entries of
\* the collection have the same country and the same canonical number.
C16_StoredNumberIsCanonical ==
    lastOp.merged =>
        /\ \A e \in Range(lastOp.cycle.got) : Text(e.phoneNumber) = Canonical(e)
        /\ \A i, j \in DOMAIN collectedData :
              i # j => ~( /\ collectedData[i].country = collectedData[j].country
                          /\ Canonical(collectedData[i]) = Canonical(collectedData[j]) )

\* The categories, in the order of config.CATEGORIES, one of whose keywords is
\* part of the text once lower-cased.
Matching(text) ==
    SelectSeq(<<"CRYPTO", "TRADING", "EARNING", "GROUPS">>,
              LAMBDA c : \E k \in DOMAIN CATEGORIES[c] :
                             Includes(toLowerCase(text), CATEGORIES[c][k]))

\* C17: the classification of a text is the first configured category with a
\* keyword in the lower-cased text, whatever other categories match as well,
\* and GENERAL when no keyword is in it.
C17_FirstCategoryInOrderWins ==
    lastOp.op = "classify" =>
        /\ Matching(input) # << >> => lastOp.reply = Matching(input)[1]
        /\ Matching(input) = << >> => lastOp.reply = "GENERAL"

\* C17 witness: a text with keywords of three categories, one of them in upper
\* case, has been classified as the first of the three.
C17_Witness ==
    /\ lastOp.op = "classify"
    /\ input = "forex group BINANCE"
    /\ Matching(input) = <<"CRYPTO", "TRADING", "GROUPS">>
    /\ lastOp.reply = "CRYPTO"

\* The candidate is one the phone library parses.
Parseable(number) == phoneLib(Clean(number)).isValid

\* C18: a candidate the library cannot parse is rejected for its format,
\* whatever it starts with; one it parses whose country code is not configured
\* is rejected as not targeted; a candidate is accepted only if it parses and
\* its code is configured.
C18_RejectsFormatThenCountry ==
    lastOp.op = "validate" =>
        /\ ~Parseable(input) =>
              lastOp.reply = [valid |-> FALSE, reason |-> "Invalid phone number format"]
        /\ Parseable(input) /\ Head(input) \notin TargetCodes =>
              lastOp.reply = [valid |-> FALSE, reason |-> "Country not in target list"]
        /\ lastOp.reply.valid => Parseable(input) /\ Head(input) \in TargetCodes

\* C18 witness: a well-formed number of a country that is not configured has
\* been rejected as not targeted.
C18_Witness ==
    /\ lastOp.op = "validate"
    /\ input = IND1
    /\ Parseable(input)
    /\ lastOp.reply.reason = "Country not in target list"

\* C19: the value a cycle returns is the number of entries its requests
\* yielded, one per valid candidate of every item fetched, as pushed onto the
\* collection before deduplication and the size limit.
C19_ReturnsCountBeforeDedup ==
    lastOp.merged => lastOp.cycle.appended = Len(lastOp.cycle.got)

\* C19 witness: a cycle has returned 2 although its merge removed a duplicate,
\* so that fewer than 2 of its entries are new to the collection.
C19_Witness ==
    /\ lastOp.merged
    /\ lastOp.cycle.appended = 2
    /\ lastOp.cycle.duplicates > 0
    /\ lastOp.cycle.dropped = 0

\* What stopCollection(ctx) of chat c does to the scheduler, whatever becomes
\* of its save.
StoppedFor(c) ==
    /\ session' = [session EXCEPT ![c].collecting = FALSE]
    /\ collectionInterval' = 0
    /\ intervals' = intervals \ {collectionInterval}
    /\ cycles' = cycles
    /\ collectedData' = collectedData

\* C20: an auto-save whose write fails changes neither the collection, nor the
\* sessions, nor the timers, nor the cycles in progress, so every armed cycle
\* timer stays armed; a stop or auto-stop whose write fails does to them
\* exactly what stopping does, and nothing to the collection.
C20_FailedSaveIsSwallowed ==
    [][/\ AutoSave(FALSE) =>
             UNCHANGED <<pc, collectedData, session, collectionInterval, intervals,
                         timeouts, starts, cycles>>
       /\ \A c \in Chats :
             Stop(c, FALSE) => StoppedFor(c) /\ timeouts' = timeouts /\ pc' = pc
       /\ \A sid \in DOMAIN starts :
             AutoStop(sid, FALSE) =>
                 StoppedFor(starts[sid].chat) /\ timeouts' = timeouts \ {sid} /\ pc' = pc]_vars

\* C20 witness: the write of an auto-save has failed with entries to save and
\* a session running on an armed timer.
C20_Witness ==
    /\ lastOp.op = "autosave"
    /\ lastOp.reply = "error"
    /\ collectedData # << >>
    /\ dataFile # collectedData
    /\ Running # {}
    /\ intervals # {}

\* C21: a session ended by auto-stop was ended by the timer its own start
\* armed, which fires the configured duration after that start: its timer is
\* no longer armed.  A session started after a stop is not ended by the timer
\* of the session before it.
C21_AutoStoppedByOwnTimerOnly ==
    \A sid \in DOMAIN starts : starts[sid].endedBy = "auto" => sid \notin timeouts

\* C22: a chat whose session is collecting is, later on, not collecting, stop
\* or no stop; and the recurring timer of a session ended by auto-stop starts
\* no further cycle.
C22_EverySessionEndsForGood ==
    /\ \A c \in 1..SchedChats :
          (c \in Chats /\ session[c].collecting) ~> ~session[c].collecting
    /\ [][\A sid \in DOMAIN starts : starts[sid].endedBy = "auto" => ~Tick(sid)]_vars

C24_CategoryDoesNotChangeRequests ==
    lastOp.op = "terms" /\ run.phrases = Len(SEARCH_PHRASES) =>
        lastOp.reply = SliceFirst(generateSearchTerms(input.country, null), 5)

\* C24 witness: the terms have been computed from the ten base phrases for a
\* country and a category whose ten keyword terms follow them.
C24_Witness ==
    /\ lastOp.op = "terms"
    /\ run.phrases = Len(SEARCH_PHRASES)
    /\ input = [country |-> "USA", category |-> "CRYPTO"]
    /\ Len(generateSearchTerms(input.country, input.category))
           = Len(SEARCH_PHRASES) + Len(CATEGORIES.CRYPTO)
    /\ Len(lastOp.reply) = 5

====
